---- MODULE Spec2Model ----
(***************************************************************************)
(* Model of the Scheme widget of canvas.schemes.js: a canvas with labelled *)
(* clickable areas, synchronised with a list of part numbers.              *)
(*                                                                         *)
(* Representation choices.                                                 *)
(*  - A JavaScript array is a sequence; the empty object {} that           *)
(*    hoveredArea starts as is the empty sequence, an Area object held in  *)
(*    hoveredArea is a one-element sequence (Object.keys(h).length is 0    *)
(*    for the former and not 0 for the latter).                            *)
(*  - An Area object is a record of its eight fields.  The code never      *)
(*    compares Areas by identity, only by their fields.                    *)
(*  - A string that is split or joined (a className, a class name) is a    *)
(*    sequence of symbols: the symbol " " is the space character, every    *)
(*    other symbol ("selected", "pointer", "part", "scheme") stands for    *)
(*    that run of letters.  "" is <<>>, "part selected" is                 *)
(*    <<"part", " ", "selected">>, the class name 'selected' is            *)
(*    <<"selected">>.  Names and part numbers are never split and are      *)
(*    plain strings.                                                       *)
(*  - A label coordinate of the JSON is a number or a string of            *)
(*    characters; parseInt converts it.                                    *)
(*  - The canvas bitmap is the list of texts and the list of circles drawn *)
(*    on it since it was last cleared.                                     *)
(***************************************************************************)
EXTENDS Integers, Sequences, FiniteSets, TLC

VARIABLES
    labels,         \* labels = JSON.parse(labelsJSON), never assigned again
    config,         \* config after setConfig(params), never assigned again
    markup,         \* the host document as it was at construction
    loaded,         \* the image's load event has fired
    areas,          \* array of clickable areas around the labels
    selectedAreas,  \* array of selected areas
    hoveredArea,    \* last hovered area
    canvasClass,    \* canvas.className
    parentClass,    \* className of each list item's parent element
    drawn,          \* what the canvas shows
    lastEvent,      \* the event the last handler ran for (history)
    toggleLog,      \* arguments of the toggleHighlight calls of the last handler
    passes,         \* render passes (drawScheme calls) run by the last handler
    other           \* a second Scheme on another canvas and list: its closure and elements

vars == <<labels, config, markup, loaded, areas, selectedAreas, hoveredArea,
          canvasClass, parentClass, drawn, lastEvent, toggleLog, passes, other>>

----------------------------------------------------------------------------
(* Bounds of the model *)

\* longest generated label list
MaxLabels == 2
\* canvas points of the events are (0..MaxCoord) x (0..MaxCoord) and the example points
MaxCoord == 3
\* longest className (in symbols) the utility functions start from
MaxClassLen == 4

----------------------------------------------------------------------------
(* Inputs of the constructor *)

Num(n) == [t |-> "number", n |-> n, s |-> <<>>]
Str(s) == [t |-> "string", n |-> 0, s |-> s]

Label(text, x, y) == [sLabel |-> text, label_x1 |-> x, label_y1 |-> y]

\* label texts of the generated lists
Names == {"1", "2"}

\* raw coordinate pairs of the generated lists
LabelPositions ==
    { <<Num(0), Str(<<"0">>)>>, <<Str(<<"1">>), Num(0)>> }

LabelChoices == { Label(n, p[1], p[2]) : n \in Names, p \in LabelPositions }

\* the lists of the README and of the specification's examples
ExampleLabels ==
    { << Label("1", Num(158), Num(165)) >>,
      << Label("1", Num(158), Num(165)), Label("1", Num(49), Num(540)) >> }

GeneratedLabels == UNION { [1..n -> LabelChoices] : n \in 0..MaxLabels }

\* params argument: absent, or an object overriding padding and areaRadius
NoParams == [given |-> FALSE, obj |-> [padding |-> 0, areaRadius |-> 0]]
SmallParams == [given |-> TRUE, obj |-> [padding |-> 1, areaRadius |-> 1]]

\* the constructor calls of the model: the generated lists with small areas,
\* the example lists with the default configuration
Calls ==
    { [labels |-> l, params |-> SmallParams] : l \in GeneratedLabels }
    \cup { [labels |-> l, params |-> NoParams] : l \in ExampleLabels }

Item(pn, parent, cls) == [partNumber |-> pn, parent |-> parent, part_number |-> cls]

\* the README's markup: each span in its own <li>, no classes
ReadmeMarkup ==
    [canvasClass |-> <<>>,
     parents |-> << <<>>, <<>>, <<>> >>,
     items |-> << Item("1", 1, TRUE), Item("2", 2, TRUE), Item("3", 3, TRUE) >>]

\* host documents: the canvas' class, the parents' classes, and the elements
\* of the list that carry data-part-number (part_number: has that class)
Markups ==
    { ReadmeMarkup,
      \* classes already present, one of them 'selected', canvas with 'pointer'
      [canvasClass |-> <<"scheme", " ", "pointer">>,
       parents |-> << <<"part", " ", "selected">>, <<"part">> >>,
       items |-> << Item("1", 1, TRUE), Item("2", 2, TRUE) >>],
      \* two part numbers inside one <li>, a part number listed twice, and an
      \* element with data-part-number that is not of class part_number
      [canvasClass |-> <<"scheme">>,
       parents |-> << <<>>, <<"part">>, <<>> >>,
       items |-> << Item("1", 1, TRUE), Item("2", 1, TRUE), Item("1", 2, TRUE),
                    Item("2", 3, FALSE) >>] }

\* points the examples click
ExamplePoints == { <<188, 195>>, <<79, 570>>, <<178, 185>> }

Points == ((0..MaxCoord) \X (0..MaxCoord)) \cup ExamplePoints

----------------------------------------------------------------------------
(* utility *)

\* String.prototype.split(' '): the runs between the spaces, empty runs included
RECURSIVE splitFrom(_, _, _, _)
splitFrom(str, i, cur, acc) ==
    IF i > Len(str) THEN Append(acc, cur)
    ELSE IF str[i] = " " THEN splitFrom(str, i + 1, <<>>, Append(acc, cur))
    ELSE splitFrom(str, i + 1, Append(cur, str[i]), acc)

split(str) == splitFrom(str, 1, <<>>, <<>>)

\* Array.prototype.join(' ')
RECURSIVE joinFrom(_, _, _)
joinFrom(arr, i, acc) ==
    IF i > Len(arr) THEN acc
    ELSE joinFrom(arr, i + 1, IF i = 1 THEN arr[i] ELSE acc \o <<" ">> \o arr[i])

join(arr) == joinFrom(arr, 1, <<>>)

\* Array.prototype.indexOf, 0-based, -1 when absent
indexOf(arr, x) ==
    IF \E i \in 1..Len(arr) : arr[i] = x
    THEN (CHOOSE i \in 1..Len(arr) : arr[i] = x /\ \A j \in 1..(i - 1) : arr[j] # x) - 1
    ELSE -1

\* Array.prototype.splice(i, 1) with i 1-based: the array without its i-th element
splice(arr, i) == SubSeq(arr, 1, i - 1) \o SubSeq(arr, i + 1, Len(arr))

\* utility.addClass without the test that the class is absent
addClassAlways(className, cls) == join(Append(split(className), cls))

\* utility.addClass: the new className
addClass(className, cls) ==
    LET classes == split(className)
    IN  join(IF indexOf(classes, cls) = -1 THEN Append(classes, cls) ELSE classes)

\* utility.removeClass' loop without its i--: the element after a removed one is skipped
RECURSIVE removeClassLoopSkip(_, _, _)
removeClassLoopSkip(classes, cls, i) ==
    IF i > Len(classes) THEN classes
    ELSE IF classes[i] = cls THEN removeClassLoopSkip(splice(classes, i), cls, i + 1)
    ELSE removeClassLoopSkip(classes, cls, i + 1)

\* the loop of utility.removeClass from index i (1-based) on
RECURSIVE removeClassLoop(_, _, _)
removeClassLoop(classes, cls, i) ==
    IF i > Len(classes) THEN classes
    ELSE IF classes[i] = cls THEN removeClassLoop(splice(classes, i), cls, i)
    ELSE removeClassLoop(classes, cls, i + 1)

\* utility.removeClass: the new className
removeClass(className, cls) == join(removeClassLoop(split(className), cls, 1))

\* utility.inRange excluding the ends of the range
inRangeStrict(val, min, max) == val > min /\ val < max

inRange(val, min, max) == val >= min /\ val <= max

\* toggleItemHighlight's call adding the class whatever func is
callFuncAlwaysAdd(func, className, cls) == addClass(className, cls)

\* the call func(item, cls) of toggleItemHighlight, func being one of the two above
callFunc(func, className, cls) ==
    IF func = "addClass" THEN addClass(className, cls) ELSE removeClass(className, cls)

----------------------------------------------------------------------------
(* Scheme *)

DefaultConfig ==
    [padding |-> 30, bgColor |-> "#fff", fontFamily |-> "Arial", fontSize |-> "12px",
     fontColor |-> "#555555", areaRadius |-> 10, areaColor |-> "#a52a2a", scale |-> 1]

\* setConfig: every key of params is written over the defaults
setConfig(cfg, params) ==
    [k \in DOMAIN cfg \cup DOMAIN params |->
        IF k \in DOMAIN params THEN params[k] ELSE cfg[k]]

\* the config the constructor ends with
initConfig(params) ==
    IF params.given THEN setConfig(DefaultConfig, params.obj) ELSE DefaultConfig

Area(name, x, y, radius) ==
    [name |-> name, left |-> x - radius, top |-> y - radius, right |-> x + radius,
     bottom |-> y + radius, x |-> x, y |-> y, radius |-> radius]

DigitChars == {"0", "1", "2", "3", "4", "5", "6", "7", "8", "9"}

DigitVal(c) ==
    CASE c = "0" -> 0 [] c = "1" -> 1 [] c = "2" -> 2 [] c = "3" -> 3 [] c = "4" -> 4
      [] c = "5" -> 5 [] c = "6" -> 6 [] c = "7" -> 7 [] c = "8" -> 8 [] c = "9" -> 9

\* the decimal value of the leading digits of s
RECURSIVE parseDigits(_, _, _)
parseDigits(s, i, acc) ==
    IF i > Len(s) \/ s[i] \notin DigitChars THEN acc
    ELSE parseDigits(s, i + 1, acc * 10 + DigitVal(s[i]))

\* parseInt of a JSON value: a non-negative integer number is itself, a
\* string that starts with a digit is the value of its leading digits
parseInt(v) == IF v.t = "number" THEN v.n ELSE parseDigits(v.s, 1, 0)

\* the blank canvas
Blank == [texts |-> <<>>, circles |-> <<>>]

\* The handlers below take and return h, the closure and the elements they
\* work on: what they change, [areas, selectedAreas, parentClass, drawn, log,
\* passes], and what they only read, [labels, config, items].

saveArea(h, name, x, y, radius) ==
    [h EXCEPT !.areas = Append(@, Area(name, x, y, radius))]

coordsInArea(x, y, area) ==
    inRange(x, area.left, area.right) /\ inRange(y, area.top, area.bottom)

\* findAllAreas: the areas named name, in array order
findAllAreas(ars, name) == SelectSeq(ars, LAMBDA a : a.name = name)

\* removeSelectedAreas' loop without its i--: the entry after a removed one is skipped
RECURSIVE removeSelectedLoopSkip(_, _, _, _)
removeSelectedLoopSkip(sel, name, i, removed) ==
    IF i > Len(sel) THEN [removed |-> removed, selectedAreas |-> sel]
    ELSE IF sel[i].name = name
         THEN removeSelectedLoopSkip(splice(sel, i), name, i + 1, Append(removed, sel[i]))
         ELSE removeSelectedLoopSkip(sel, name, i + 1, removed)

\* the loop of removeSelectedAreas from index i (1-based) on
RECURSIVE removeSelectedLoop(_, _, _, _)
removeSelectedLoop(sel, name, i, removed) ==
    IF i > Len(sel) THEN [removed |-> removed, selectedAreas |-> sel]
    ELSE IF sel[i].name = name
         THEN removeSelectedLoop(splice(sel, i), name, i, Append(removed, sel[i]))
         ELSE removeSelectedLoop(sel, name, i + 1, removed)

\* removeSelectedAreas: the removed areas and what is left of selectedAreas
removeSelectedAreas(sel, name) == removeSelectedLoop(sel, name, 1, <<>>)

\* list.querySelectorAll('[data-part-number="' + partNumber + '"]'), document order
itemsOf(items, partNumber) == SelectSeq(items, LAMBDA it : it.partNumber = partNumber)

RECURSIVE toggleItemLoop(_, _, _, _)
toggleItemLoop(h, items, func, i) ==
    IF i > Len(items) THEN h
    ELSE toggleItemLoop(
            [h EXCEPT !.parentClass[items[i].parent] = callFunc(func, @, <<"selected">>)],
            items, func, i + 1)

toggleItemHighlight(h, partNumber, func) ==
    toggleItemLoop(h, itemsOf(h.items, partNumber), func, 1)

drawArea(h, x, y, radius) ==
    [h EXCEPT !.drawn.circles = Append(@, [x |-> x, y |-> y, radius |-> radius])]

\* drawSelectedAreas' loop passing the center's coordinates in the wrong order
RECURSIVE drawSelectedLoopSwapped(_, _)
drawSelectedLoopSwapped(h, i) ==
    IF i > Len(h.selectedAreas) THEN h
    ELSE LET area == h.selectedAreas[i]
         IN  drawSelectedLoopSwapped(drawArea(h, area.y, area.x, area.radius), i + 1)

RECURSIVE drawSelectedLoop(_, _)
drawSelectedLoop(h, i) ==
    IF i > Len(h.selectedAreas) THEN h
    ELSE LET area == h.selectedAreas[i]
         IN  drawSelectedLoop(drawArea(h, area.x, area.y, area.radius), i + 1)

drawSelectedAreas(h) == drawSelectedLoop(h, 1)

drawLabel(h, text, x, y) ==
    saveArea([h EXCEPT !.drawn.texts = Append(@, [text |-> text, x |-> x, y |-> y])],
             text, x, y, h.config.areaRadius)

\* drawLabels' loop with the padding left out of y
RECURSIVE drawLabelsLoopNoPadY(_, _)
drawLabelsLoopNoPadY(h, i) ==
    IF i > Len(h.labels) THEN h
    ELSE LET label == h.labels[i]
             text == label.sLabel
             x == parseInt(label.label_x1) + h.config.padding
             y == parseInt(label.label_y1)
         IN  drawLabelsLoopNoPadY(drawLabel(h, text, x, y), i + 1)

RECURSIVE drawLabelsLoop(_, _)
drawLabelsLoop(h, i) ==
    IF i > Len(h.labels) THEN h
    ELSE LET label == h.labels[i]
             text == label.sLabel
             x == parseInt(label.label_x1) + h.config.padding
             y == parseInt(label.label_y1) + h.config.padding
         IN  drawLabelsLoop(drawLabel(h, text, x, y), i + 1)

drawLabels(h) == drawLabelsLoop(h, 1)

\* drawScheme: setCanvasSize and fillRect leave a canvas with the background
\* only, then the labels and the selected areas are drawn
drawScheme(h) ==
    drawSelectedAreas(drawLabels([h EXCEPT !.drawn = Blank, !.passes = @ + 1]))

\* redrawScheme that clears the canvas and the areas and draws nothing
redrawSchemeNoDraw(h) == [h EXCEPT !.drawn = Blank, !.areas = <<>>]

redrawScheme(h) == drawScheme([h EXCEPT !.drawn = Blank, !.areas = <<>>])

\* toggleHighlight without the test that an area of that name exists
toggleHighlightNoGuard(h, partNumber) ==
    LET called == [h EXCEPT !.log = Append(@, partNumber)]
        foundAreas == findAllAreas(h.areas, partNumber)
        rem == removeSelectedAreas(h.selectedAreas, partNumber)
    IN  IF Len(rem.removed) # 0
        THEN redrawScheme(toggleItemHighlight(
                 [called EXCEPT !.selectedAreas = rem.selectedAreas],
                 partNumber, "removeClass"))
        ELSE redrawScheme(toggleItemHighlight(
                 [called EXCEPT !.selectedAreas = rem.selectedAreas \o foundAreas],
                 partNumber, "addClass"))

\* toggleHighlight selecting only the first of the found areas
toggleHighlightFirstOnly(h, partNumber) ==
    LET called == [h EXCEPT !.log = Append(@, partNumber)]
        foundAreas == findAllAreas(h.areas, partNumber)
        rem == removeSelectedAreas(h.selectedAreas, partNumber)
    IN  IF Len(foundAreas) # 0
        THEN IF Len(rem.removed) # 0
             THEN redrawScheme(toggleItemHighlight(
                      [called EXCEPT !.selectedAreas = rem.selectedAreas],
                      partNumber, "removeClass"))
             ELSE redrawScheme(toggleItemHighlight(
                      [called EXCEPT !.selectedAreas = Append(rem.selectedAreas, foundAreas[1])],
                      partNumber, "addClass"))
        ELSE called

toggleHighlight(h, partNumber) ==
    LET called == [h EXCEPT !.log = Append(@, partNumber)]
        foundAreas == findAllAreas(h.areas, partNumber)
        rem == removeSelectedAreas(h.selectedAreas, partNumber)
    IN  IF Len(foundAreas) # 0
        THEN IF Len(rem.removed) # 0
             THEN redrawScheme(toggleItemHighlight(
                      [called EXCEPT !.selectedAreas = rem.selectedAreas],
                      partNumber, "removeClass"))
             ELSE redrawScheme(toggleItemHighlight(
                      [called EXCEPT !.selectedAreas = rem.selectedAreas \o foundAreas],
                      partNumber, "addClass"))
        ELSE called

\* areaClicked's loop testing the x range only
RECURSIVE areaClickedLoopXOnly(_, _, _, _)
areaClickedLoopXOnly(h, x, y, i) ==
    IF i > Len(h.areas) THEN h
    ELSE LET area == h.areas[i]
         IN  IF inRange(x, area.left, area.right)
             THEN areaClickedLoopXOnly(toggleHighlight(h, area.name), x, y, i + 1)
             ELSE areaClickedLoopXOnly(h, x, y, i + 1)

\* the loop of areaClicked from index i (1-based) on; areas is read anew in
\* every iteration
RECURSIVE areaClickedLoop(_, _, _, _)
areaClickedLoop(h, x, y, i) ==
    IF i > Len(h.areas) THEN h
    ELSE LET area == h.areas[i]
         IN  IF coordsInArea(x, y, area)
             THEN areaClickedLoop(toggleHighlight(h, area.name), x, y, i + 1)
             ELSE areaClickedLoop(h, x, y, i + 1)

areaClicked(h, x, y) == areaClickedLoop(h, x, y, 1)

\* the first area that contains the point, as areaHovered's loop finds it
firstAreaAt(ars, x, y) ==
    IF \E i \in 1..Len(ars) : coordsInArea(x, y, ars[i])
    THEN << ars[CHOOSE i \in 1..Len(ars) :
                  /\ coordsInArea(x, y, ars[i])
                  /\ \A j \in 1..(i - 1) : ~coordsInArea(x, y, ars[j])] >>
    ELSE <<>>

\* areaHovered scanning for another area when the pointer leaves the hovered one
areaHoveredRescan(hov, cc, ars, x, y) ==
    IF Len(hov) = 0 \/ ~coordsInArea(x, y, hov[1])
    THEN LET found == firstAreaAt(ars, x, y)
         IN  IF Len(found) # 0
             THEN [hoveredArea |-> found, canvasClass |-> addClass(cc, <<"pointer">>)]
             ELSE [hoveredArea |-> <<>>, canvasClass |-> removeClass(cc, <<"pointer">>)]
    ELSE [hoveredArea |-> hov, canvasClass |-> cc]

\* areaHovered leaving the 'pointer' class on the canvas when the hover ends
areaHoveredKeepClass(hov, cc, ars, x, y) ==
    IF Len(hov) = 0
    THEN LET found == firstAreaAt(ars, x, y)
         IN  IF Len(found) # 0
             THEN [hoveredArea |-> found, canvasClass |-> addClass(cc, <<"pointer">>)]
             ELSE [hoveredArea |-> hov, canvasClass |-> cc]
    ELSE IF ~coordsInArea(x, y, hov[1])
         THEN [hoveredArea |-> <<>>, canvasClass |-> cc]
         ELSE [hoveredArea |-> hov, canvasClass |-> cc]

\* areaHovered: the new hoveredArea and canvas.className
areaHovered(hov, cc, ars, x, y) ==
    IF Len(hov) = 0
    THEN LET found == firstAreaAt(ars, x, y)
         IN  IF Len(found) # 0
             THEN [hoveredArea |-> found, canvasClass |-> addClass(cc, <<"pointer">>)]
             ELSE [hoveredArea |-> hov, canvasClass |-> cc]
    ELSE IF ~coordsInArea(x, y, hov[1])
         THEN [hoveredArea |-> <<>>, canvasClass |-> removeClass(cc, <<"pointer">>)]
         ELSE [hoveredArea |-> hov, canvasClass |-> cc]

----------------------------------------------------------------------------
(* The state machine *)

\* the indices of the areas of ars whose box contains the point
hitsIn(ars, x, y) == { i \in 1..Len(ars) : coordsInArea(x, y, ars[i]) }

\* the indices of the areas whose box contains the point
hitsAt(x, y) == hitsIn(areas, x, y)

\* an event: its type, for a canvas event the areas under its point, for a
\* list event the part number of the clicked element
Event(type, hits, partNumber) == [type |-> type, hits |-> hits, partNumber |-> partNumber]

\* the handlers' part of the current state, at the start of a handler
Here ==
    [areas |-> areas, selectedAreas |-> selectedAreas, parentClass |-> parentClass,
     drawn |-> drawn, log |-> <<>>, passes |-> 0,
     labels |-> labels, config |-> config, items |-> markup.items]

\* the state after a handler that ended with h
Becomes(h) ==
    /\ areas' = h.areas
    /\ selectedAreas' = h.selectedAreas
    /\ parentClass' = h.parentClass
    /\ drawn' = h.drawn
    /\ toggleLog' = h.log
    /\ passes' = h.passes

\* a Scheme as its constructor leaves it: its closure variables and the
\* classes of its canvas and its list
Constructed(call, doc) ==
    [labels |-> call.labels, config |-> initConfig(call.params), markup |-> doc,
     loaded |-> FALSE, areas |-> <<>>, selectedAreas |-> <<>>, hoveredArea |-> <<>>,
     canvasClass |-> doc.canvasClass, parentClass |-> doc.parents, drawn |-> Blank]

\* the page holds no second Scheme
NoScheme == Constructed([labels |-> <<>>, params |-> NoParams],
                        [canvasClass |-> <<>>, parents |-> <<>>, items |-> <<>>])

\* the constructor has run: nothing is drawn until the image has loaded
Init ==
    /\ \E call \in Calls :
          /\ labels = call.labels
          /\ config = initConfig(call.params)
    /\ markup \in Markups
    /\ loaded = FALSE
    /\ areas = <<>>
    /\ selectedAreas = <<>>
    /\ hoveredArea = <<>>
    /\ canvasClass = markup.canvasClass
    /\ parentClass = markup.parents
    /\ drawn = Blank
    /\ lastEvent = Event("none", {}, "")
    /\ toggleLog = <<>>
    /\ passes = 0
    /\ other = NoScheme

\* the image's load event, which fires at most once: drawScheme
Load ==
    /\ ~loaded
    /\ loaded' = TRUE
    /\ \E h \in {drawScheme(Here)} : Becomes(h)
    /\ lastEvent' = Event("load", {}, "")
    /\ UNCHANGED <<labels, config, markup, hoveredArea, canvasClass, other>>

\* a click on the canvas that also ends the hover
AreaClickedEndsHover(x, y) ==
    /\ \E h \in {areaClicked(Here, x, y)} : Becomes(h)
    /\ lastEvent' = Event("click", hitsAt(x, y), "")
    /\ hoveredArea' = <<>>
    /\ UNCHANGED <<labels, config, markup, loaded, canvasClass, other>>

\* a click on the canvas at (x, y)
AreaClicked(x, y) ==
    /\ \E h \in {areaClicked(Here, x, y)} : Becomes(h)
    /\ lastEvent' = Event("click", hitsAt(x, y), "")
    /\ UNCHANGED <<labels, config, markup, loaded, hoveredArea, canvasClass, other>>

\* a mousemove on the canvas at (x, y)
AreaHovered(x, y) ==
    /\ LET r == areaHovered(hoveredArea, canvasClass, areas, x, y)
       IN  /\ hoveredArea' = r.hoveredArea
           /\ canvasClass' = r.canvasClass
    /\ lastEvent' = Event("mousemove", hitsAt(x, y), "")
    /\ toggleLog' = <<>>
    /\ passes' = 0
    /\ UNCHANGED <<labels, config, markup, loaded, areas, selectedAreas, parentClass, drawn,
                   other>>

\* a click on the i-th element with data-part-number, which has a listener
\* when it is of class part_number
ItemClicked(i) ==
    /\ markup.items[i].part_number
    /\ \E h \in {toggleHighlight(Here, markup.items[i].partNumber)} : Becomes(h)
    /\ lastEvent' = Event("item", {}, markup.items[i].partNumber)
    /\ UNCHANGED <<labels, config, markup, loaded, hoveredArea, canvasClass, other>>

Next ==
    \/ Load
    \/ \E p \in Points : AreaClicked(p[1], p[2])
    \/ \E p \in Points : AreaHovered(p[1], p[2])
    \/ \E i \in 1..Len(markup.items) : ItemClicked(i)

Spec == Init /\ [][Next]_vars

----------------------------------------------------------------------------
(* Two Schemes on one page, each on its own canvas and list: the first one
   is the state above, the second one is other *)

\* the constructor calls of the two Schemes
TwoCalls ==
    { [labels |-> << Label("1", Num(0), Str(<<"0">>)) >>, params |-> SmallParams],
      [labels |-> << Label("1", Num(0), Str(<<"0">>)), Label("2", Str(<<"1">>), Num(0)) >>,
       params |-> SmallParams] }

\* both constructors have run, each on a copy of the README's markup
TwoInit ==
    /\ \E call \in TwoCalls :
          /\ labels = call.labels
          /\ config = initConfig(call.params)
    /\ markup = ReadmeMarkup
    /\ loaded = FALSE
    /\ areas = <<>>
    /\ selectedAreas = <<>>
    /\ hoveredArea = <<>>
    /\ canvasClass = markup.canvasClass
    /\ parentClass = markup.parents
    /\ drawn = Blank
    /\ lastEvent = Event("none", {}, "")
    /\ toggleLog = <<>>
    /\ passes = 0
    /\ \E call \in TwoCalls : other = Constructed(call, ReadmeMarkup)

\* the handlers' part of the second Scheme, at the start of one of its handlers
There ==
    [areas |-> other.areas, selectedAreas |-> other.selectedAreas,
     parentClass |-> other.parentClass, drawn |-> other.drawn, log |-> <<>>, passes |-> 0,
     labels |-> other.labels, config |-> other.config, items |-> other.markup.items]

\* the second Scheme after one of its handlers ended with h
OtherAfter(h) ==
    [other EXCEPT !.areas = h.areas, !.selectedAreas = h.selectedAreas,
                  !.parentClass = h.parentClass, !.drawn = h.drawn]

\* the first Scheme is left alone
FirstUntouched ==
    UNCHANGED <<labels, config, markup, loaded, areas, selectedAreas, hoveredArea,
                canvasClass, parentClass, drawn>>

\* the load event of the second Scheme's image
OtherLoad ==
    /\ ~other.loaded
    /\ \E h \in {drawScheme(There)} :
          /\ other' = [OtherAfter(h) EXCEPT !.loaded = TRUE]
          /\ toggleLog' = h.log
          /\ passes' = h.passes
    /\ lastEvent' = Event("other.load", {}, "")
    /\ FirstUntouched

\* a click on the second Scheme's canvas, the second Scheme's selection
\* being written to the first one's selectedAreas as well
OtherAreaClickedShared(x, y) ==
    /\ \E h \in {areaClicked(There, x, y)} :
          /\ other' = OtherAfter(h)
          /\ selectedAreas' = h.selectedAreas
          /\ toggleLog' = h.log
          /\ passes' = h.passes
    /\ lastEvent' = Event("other.click", hitsIn(other.areas, x, y), "")
    /\ UNCHANGED <<labels, config, markup, loaded, areas, hoveredArea,
                   canvasClass, parentClass, drawn>>

\* a click on the second Scheme's canvas at (x, y)
OtherAreaClicked(x, y) ==
    /\ \E h \in {areaClicked(There, x, y)} :
          /\ other' = OtherAfter(h)
          /\ toggleLog' = h.log
          /\ passes' = h.passes
    /\ lastEvent' = Event("other.click", hitsIn(other.areas, x, y), "")
    /\ FirstUntouched

\* a mousemove on the second Scheme's canvas at (x, y)
OtherAreaHovered(x, y) ==
    /\ LET r == areaHovered(other.hoveredArea, other.canvasClass, other.areas, x, y)
       IN  other' = [other EXCEPT !.hoveredArea = r.hoveredArea, !.canvasClass = r.canvasClass]
    /\ lastEvent' = Event("other.mousemove", hitsIn(other.areas, x, y), "")
    /\ toggleLog' = <<>>
    /\ passes' = 0
    /\ FirstUntouched

\* a click on the i-th element with data-part-number of the second Scheme's list
OtherItemClicked(i) ==
    /\ other.markup.items[i].part_number
    /\ \E h \in {toggleHighlight(There, other.markup.items[i].partNumber)} :
          /\ other' = OtherAfter(h)
          /\ toggleLog' = h.log
          /\ passes' = h.passes
    /\ lastEvent' = Event("other.item", {}, other.markup.items[i].partNumber)
    /\ FirstUntouched

TwoNext ==
    \/ Load
    \/ \E p \in Points : AreaClicked(p[1], p[2])
    \/ \E p \in Points : AreaHovered(p[1], p[2])
    \/ \E i \in 1..Len(markup.items) : ItemClicked(i)
    \/ OtherLoad
    \/ \E p \in Points : OtherAreaClicked(p[1], p[2])
    \/ \E p \in Points : OtherAreaHovered(p[1], p[2])
    \/ \E i \in 1..Len(other.markup.items) : OtherItemClicked(i)

TwoSpec == TwoInit /\ [][TwoNext]_vars

----------------------------------------------------------------------------
(* The utility functions on their own: an element with any className, to
   which addClass and removeClass are applied with any class name *)

\* the symbols of the classNames: the space and two runs of letters
ClassSymbols == {" ", "selected", "part"}

\* the class names passed to the functions
ClassNames == {"selected", "part"}

\* the classNames the element starts with
ClassStrings == UNION { [1..n -> ClassSymbols] : n \in 0..MaxClassLen }

\* a call func(obj, cls) on an element whose className was before
UtilityCall(func, cls, before) == [type |-> func, cls |-> cls, before |-> before]

\* the element is the canvas of a widget without labels and list items
UtilityInit ==
    /\ canvasClass \in ClassStrings
    /\ labels = <<>>
    /\ config = DefaultConfig
    /\ markup = [canvasClass |-> canvasClass, parents |-> <<>>, items |-> <<>>]
    /\ loaded = FALSE
    /\ areas = <<>>
    /\ selectedAreas = <<>>
    /\ hoveredArea = <<>>
    /\ parentClass = <<>>
    /\ drawn = Blank
    /\ lastEvent = UtilityCall("none", "", <<>>)
    /\ toggleLog = <<>>
    /\ passes = 0
    /\ other = NoScheme

\* utility.addClass(canvas, cls)
AddClass(cls) ==
    /\ canvasClass' = addClass(canvasClass, <<cls>>)
    /\ lastEvent' = UtilityCall("addClass", cls, canvasClass)
    /\ UNCHANGED <<labels, config, markup, loaded, areas, selectedAreas, hoveredArea,
                   parentClass, drawn, toggleLog, passes, other>>

\* utility.removeClass(canvas, cls)
RemoveClass(cls) ==
    /\ canvasClass' = removeClass(canvasClass, <<cls>>)
    /\ lastEvent' = UtilityCall("removeClass", cls, canvasClass)
    /\ UNCHANGED <<labels, config, markup, loaded, areas, selectedAreas, hoveredArea,
                   parentClass, drawn, toggleLog, passes, other>>

UtilityNext ==
    \/ \E cls \in ClassNames : AddClass(cls)
    \/ \E cls \in ClassNames : RemoveClass(cls)

UtilitySpec == UtilityInit /\ [][UtilityNext]_vars

----------------------------------------------------------------------------
(* Vocabulary of the properties *)

Range(seq) == { seq[i] : i \in 1..Len(seq) }

\* how often a occurs in seq
Count(seq, a) == Cardinality({ i \in 1..Len(seq) : seq[i] = a })

\* the class list of className holds the class c
HasClass(className, c) == \E i \in 1..Len(split(className)) : split(className)[i] = <<c>>

LabelNames == { labels[i].sLabel : i \in 1..Len(labels) }

\* the names that have an entry in the selected set sel
NamesIn(sel) == { sel[i].name : i \in 1..Len(sel) }

ItemIds == 1..Len(markup.items)

\* the parents of the elements with part number n that carry 'selected' in pc
SelectedParents(pc) ==
    { markup.items[i].parent : i \in { j \in ItemIds : HasClass(pc[markup.items[j].parent], "selected") } }

\* the list shows n as the selected set has it: the parent of every element
\* with part number n has 'selected' exactly when n is selected
ListInSync(n) ==
    \A i \in ItemIds :
        markup.items[i].partNumber = n =>
            (HasClass(parentClass[markup.items[i].parent], "selected") <=> n \in NamesIn(selectedAreas))

\* the Area the code makes of the i-th label
AreaOfLabel(i) ==
    Area(labels[i].sLabel,
         parseInt(labels[i].label_x1) + config.padding,
         parseInt(labels[i].label_y1) + config.padding,
         config.areaRadius)

\* the handlers' state after toggle-highlight of n twice in succession
ToggledTwice(n) == toggleHighlight(toggleHighlight(Here, n), n)

\* toggling n twice restores the selected set and the list's 'selected' classes
RestoredAfterTwo(n) ==
    /\ Range(ToggledTwice(n).selectedAreas) = Range(selectedAreas)
    /\ SelectedParents(ToggledTwice(n).parentClass) = SelectedParents(parentClass)

----------------------------------------------------------------------------
(* C1 *)

\* C1 as stated: in every state after the load, toggling any label's name
\* twice in succession leaves the selected set (as a set of Areas) and the
\* presence of 'selected' on every list item's parent as they were.
C1_ToggleTwiceRestoresAlways ==
    loaded => \A n \in LabelNames : RestoredAfterTwo(n)

\* C1 as amended: it does so for every name that the list shows as the
\* selected set has it (the parent of each of its list items carries
\* 'selected' exactly when the name is selected).
C1_ToggleTwiceRestores ==
    loaded => \A n \in LabelNames : ListInSync(n) => RestoredAfterTwo(n)

\* a list click has selected a name that two areas share and that the list
\* shows as selected
C1_Witness ==
    /\ loaded
    /\ \E n \in LabelNames :
          /\ ListInSync(n)
          /\ Len(findAllAreas(areas, n)) = 2
          /\ Len(findAllAreas(selectedAreas, n)) = 2
          /\ \E i \in ItemIds : markup.items[i].partNumber = n
    /\ lastEvent.type = "item"

----------------------------------------------------------------------------
(* C2 *)

\* the point is strictly inside the area's bounding box
StrictlyInside(x, y, area) ==
    area.left < x /\ x < area.right /\ area.top < y /\ y < area.bottom

\* C2: after the load, a canvas click strictly inside the bounding box of
\* some label's Area flips the selected state of that label's name, whatever
\* the label list (overlapping Areas and shared names included).
C2_ClickFlips ==
    [][\A p \in Points :
          (loaded /\ AreaClicked(p[1], p[2])) =>
              \A i \in 1..Len(areas) :
                  StrictlyInside(p[1], p[2], areas[i]) =>
                      (areas[i].name \in NamesIn(selectedAreas') <=>
                       areas[i].name \notin NamesIn(selectedAreas))]_vars

----------------------------------------------------------------------------
(* C3 *)

\* C3: in every reachable state every name is fully selected or not selected
\* at all: the entries of the selected set with that name are none, or they
\* are the current Areas with that name, each one once.
C3_NoPartialSelection ==
    \A n \in LabelNames \cup NamesIn(selectedAreas) :
        LET sel == findAllAreas(selectedAreas, n)
            cur == findAllAreas(areas, n)
        IN  \/ sel = <<>>
            \/ /\ Len(sel) = Len(cur)
               /\ \A a \in Range(cur) \cup Range(sel) : Count(sel, a) = Count(cur, a)

\* a canvas click on one of two areas that share a name has selected both
C3_Witness ==
    /\ lastEvent.type = "click"
    /\ Cardinality(lastEvent.hits) = 1
    /\ \E n \in NamesIn(selectedAreas) :
          /\ Len(findAllAreas(areas, n)) = 2
          /\ Len(findAllAreas(selectedAreas, n)) = 2

----------------------------------------------------------------------------
(* C4 *)

\* the indices of hits in increasing order
RECURSIVE Ascending(_)
Ascending(hits) ==
    IF hits = {} THEN <<>>
    ELSE LET m == CHOOSE i \in hits : \A j \in hits : i <= j
         IN  <<m>> \o Ascending(hits \ {m})

\* C4: one canvas click calls toggle-highlight once for each Area whose box
\* contains the click point, in label order, and for no other Area, although
\* every effective toggle rebuilds the Area array under the handler's loop.
C4_ClickTogglesEachHit ==
    lastEvent.type = "click" =>
        LET order == Ascending(lastEvent.hits)
        IN  /\ Len(toggleLog) = Len(order)
            /\ \A k \in 1..Len(order) : toggleLog[k] = AreaOfLabel(order[k]).name

\* one click has toggled two overlapping areas of distinct names, with a
\* redraw after each
C4_Witness ==
    /\ lastEvent.type = "click"
    /\ Cardinality(lastEvent.hits) = 2
    /\ Len(toggleLog) = 2
    /\ toggleLog[1] # toggleLog[2]
    /\ passes = 2

----------------------------------------------------------------------------
(* C5 *)

\* the circles a render pass strokes for the selected set sel
CirclesOf(sel) == [i \in 1..Len(sel) |-> [x |-> sel[i].x, y |-> sel[i].y, radius |-> sel[i].radius]]

\* the labels named n
LabelsNamed(n) == { i \in 1..Len(labels) : labels[i].sLabel = n }

\* C5: after the load, a list-item click on a part number that names k >= 1
\* labels and is unselected adds exactly those k Areas to the selected set,
\* puts 'selected' on the parent of every list item with that part number,
\* and the redraw strokes one circle at the center of each selected Area.
C5_ListClickSelectsAll ==
    [][LET n == lastEvent'.partNumber
       IN  (/\ loaded
            /\ lastEvent'.type = "item"
            /\ LabelsNamed(n) # {}
            /\ n \notin NamesIn(selectedAreas)) =>
               /\ Len(selectedAreas') = Len(selectedAreas) + Cardinality(LabelsNamed(n))
               /\ SubSeq(selectedAreas', 1, Len(selectedAreas)) = selectedAreas
               /\ \A k \in 1..Cardinality(LabelsNamed(n)) :
                     selectedAreas'[Len(selectedAreas) + k] =
                         AreaOfLabel(Ascending(LabelsNamed(n))[k])
               /\ \A i \in ItemIds :
                     markup.items[i].partNumber = n =>
                         HasClass(parentClass'[markup.items[i].parent], "selected")
               /\ passes' = 1
               /\ drawn'.circles = CirclesOf(selectedAreas')]_vars

\* a list click on "1" has selected both labels of the README's example and
\* both are stroked
C5_Witness ==
    /\ loaded
    /\ lastEvent = Event("item", {}, "1")
    /\ labels = << Label("1", Num(158), Num(165)), Label("1", Num(49), Num(540)) >>
    /\ Len(selectedAreas) = 2
    /\ drawn.circles = << [x |-> 188, y |-> 195, radius |-> 10], [x |-> 79, y |-> 570, radius |-> 10] >>

----------------------------------------------------------------------------
(* C6 *)

\* C6: after every render pass the Area array holds one Area per label, in
\* label order, the i-th with the i-th label's text as name and the center
\* (label.x + padding, label.y + padding); nothing of an earlier pass is left.
C6_AreasAreTheLabels ==
    loaded =>
        /\ Len(areas) = Len(labels)
        /\ \A i \in 1..Len(labels) :
              /\ areas[i].name = labels[i].sLabel
              /\ areas[i].x = parseInt(labels[i].label_x1) + config.padding
              /\ areas[i].y = parseInt(labels[i].label_y1) + config.padding

\* a click has redrawn twice a scheme whose two labels share name and place
C6_Witness ==
    /\ loaded
    /\ passes = 2
    /\ Len(labels) = 2
    /\ labels[1] = labels[2]
    /\ Len(areas) = 2

----------------------------------------------------------------------------
(* C7 *)

\* the widget's state and the page are as they were, and nothing was drawn
NothingHappened ==
    /\ UNCHANGED <<areas, selectedAreas, hoveredArea, canvasClass, parentClass, drawn>>
    /\ passes' = 0

\* C7: a canvas click outside every Area's box, and a list-item click on a
\* part number that no current Area has as name, change nothing (Area array,
\* selected set, hovered area, list and canvas classes) and redraw nothing.
C7_MissesAreNoOps ==
    [][/\ (lastEvent'.type = "click" /\ lastEvent'.hits = {}) => NothingHappened
       /\ (lastEvent'.type = "item" /\ findAllAreas(areas, lastEvent'.partNumber) = <<>>)
              => NothingHappened]_vars

\* after the load, with an area selected and one hovered, a click has missed
\* every area
C7_Witness ==
    /\ loaded
    /\ lastEvent.type = "click"
    /\ lastEvent.hits = {}
    /\ selectedAreas # <<>>
    /\ hoveredArea # <<>>

----------------------------------------------------------------------------
(* C8 *)

\* the event's point is inside the box of area a
Under(hits, a) == \E i \in hits : areas[i] = a

\* C8: one mousemove changes the hover state only from no-hover to the first
\* Area (label order) under the pointer or from a hovered Area the pointer
\* is outside of to no-hover; never from one Area to another.
C8_HoverOneStep ==
    [][lastEvent'.type = "mousemove" =>
          /\ \/ hoveredArea' = hoveredArea
             \/ /\ hoveredArea = <<>>
                /\ lastEvent'.hits # {}
                /\ hoveredArea' = << areas[Ascending(lastEvent'.hits)[1]] >>
             \/ /\ hoveredArea # <<>>
                /\ ~Under(lastEvent'.hits, hoveredArea[1])
                /\ hoveredArea' = <<>>
          /\ (hoveredArea # <<>> /\ ~Under(lastEvent'.hits, hoveredArea[1]))
                => hoveredArea' = <<>>]_vars

\* a mousemove has ended with the pointer inside an area's box and no area
\* hovered: it left the hovered area at a point inside another one
C8_Witness ==
    /\ lastEvent.type = "mousemove"
    /\ lastEvent.hits # {}
    /\ hoveredArea = <<>>

----------------------------------------------------------------------------
(* C9 *)

\* C9: when the canvas starts without the 'pointer' class, in every reachable
\* state HoveredArea is empty or one Area, and the canvas has the 'pointer'
\* class exactly when HoveredArea is not empty.
C9_PointerIffHovered ==
    ~HasClass(markup.canvasClass, "pointer") =>
        /\ Len(hoveredArea) <= 1
        /\ HasClass(canvasClass, "pointer") <=> hoveredArea # <<>>

\* an area is hovered after a click on it, on a canvas that had another class
C9_Witness ==
    /\ markup.canvasClass = <<"scheme">>
    /\ hoveredArea # <<>>
    /\ lastEvent.type = "click"
    /\ lastEvent.hits # {}
    /\ HasClass(canvasClass, "pointer")

----------------------------------------------------------------------------
(* C10 *)

\* C10: until the load event fires every click, mousemove and list-item click
\* leaves the widget as constructed: no Area, nothing selected, nothing
\* hovered, no class added, nothing rendered; so it stays if the event never
\* fires.
C10_InertUntilLoad ==
    ~loaded =>
        /\ areas = <<>>
        /\ selectedAreas = <<>>
        /\ hoveredArea = <<>>
        /\ canvasClass = markup.canvasClass
        /\ parentClass = markup.parents
        /\ drawn = Blank
        /\ passes = 0

\* before the load, a list item whose part number is a label's text was clicked
C10_Witness ==
    /\ ~loaded
    /\ lastEvent.type = "item"
    /\ lastEvent.partNumber \in LabelNames

----------------------------------------------------------------------------
(* C11 *)

\* the integer points around area a: its box and one unit beyond each edge
Around(a) ==
    ((a.x - a.radius - 1)..(a.x + a.radius + 1)) \X ((a.y - a.radius - 1)..(a.y + a.radius + 1))

\* the four corners of a's box
Corners(a) ==
    { <<a.x - a.radius, a.y - a.radius>>, <<a.x + a.radius, a.y - a.radius>>,
      <<a.x - a.radius, a.y + a.radius>>, <<a.x + a.radius, a.y + a.radius>> }

\* the point is outside the circle drawn for a
OutsideCircle(p, a) ==
    (p[1] - a.x) * (p[1] - a.x) + (p[2] - a.y) * (p[2] - a.y) > a.radius * a.radius

\* C11: a point (x, y) matches an Area with center (cx, cy) and radius r
\* exactly when cx - r <= x <= cx + r and cy - r <= y <= cy + r; so the four
\* corners of the box match and the points one unit outside an edge do not.
C11_HitTestIsInclusiveBox ==
    \A i \in 1..Len(areas) :
        LET a == areas[i]
        IN  /\ \A p \in Around(a) \cup Points :
                  coordsInArea(p[1], p[2], a) <=>
                      /\ a.x - a.radius <= p[1] /\ p[1] <= a.x + a.radius
                      /\ a.y - a.radius <= p[2] /\ p[2] <= a.y + a.radius
            /\ \A p \in Corners(a) : coordsInArea(p[1], p[2], a)
            /\ \A p \in Around(a) :
                  (p[1] \in {a.x - a.radius - 1, a.x + a.radius + 1}
                   \/ p[2] \in {a.y - a.radius - 1, a.y + a.radius + 1})
                      => ~coordsInArea(p[1], p[2], a)

\* the README's label is selected by a click, and the corner (178,185) of
\* its box, one of the points clicked, matches it from outside its circle
C11_Witness ==
    /\ lastEvent.type = "click"
    /\ lastEvent.hits = {1}
    /\ Len(selectedAreas) = 1
    /\ areas = << Area("1", 188, 195, 10) >>
    /\ <<178, 185>> \in Points \cap Corners(areas[1])
    /\ coordsInArea(178, 185, areas[1])
    /\ OutsideCircle(<<178, 185>>, areas[1])

----------------------------------------------------------------------------
(* C13 *)

\* the class list of a className: its space-free runs that are not empty
Classes(className) == SelectSeq(split(className), LAMBDA c : c # <<>>)

\* seq without the elements equal to x
Without(seq, x) == SelectSeq(seq, LAMBDA c : c # x)

\* C13: addClass is an idempotent insert: a second addClass changes nothing,
\* the class is in the result, the other classes are all there in their
\* order, and a className that already holds the class is left as it is.
C13_AddClassIdempotent ==
    lastEvent.type = "addClass" =>
        LET s == lastEvent.before
            c == <<lastEvent.cls>>
        IN  /\ addClass(canvasClass, c) = canvasClass
            /\ c \in Range(Classes(canvasClass))
            /\ Without(Classes(canvasClass), c) = Without(Classes(s), c)
            /\ Count(Classes(canvasClass), c) = IF c \in Range(Classes(s)) THEN Count(Classes(s), c) ELSE 1
            /\ c \in Range(Classes(s)) => canvasClass = s

\* addClass has added 'selected' to "part", and it has left "part selected"
\* as it was
C13_Witness ==
    /\ lastEvent.type = "addClass"
    /\ lastEvent.cls = "selected"
    /\ lastEvent.before \in { <<"part">>, <<"part", " ", "selected">> }
    /\ canvasClass = <<"part", " ", "selected">>

----------------------------------------------------------------------------
(* C14 *)

\* C14: removeClass removes every occurrence of the class, consecutive ones
\* too, and keeps every other class in its order; so removeClass after
\* addClass restores a className that did not hold the class.
C14_RemoveClassRemovesAll ==
    /\ lastEvent.type = "removeClass" =>
          LET s == lastEvent.before
              c == <<lastEvent.cls>>
          IN  /\ c \notin Range(split(canvasClass))
              /\ Classes(canvasClass) = Without(Classes(s), c)
    /\ \A cls \in ClassNames :
          <<cls>> \notin Range(Classes(canvasClass)) =>
              removeClass(addClass(canvasClass, <<cls>>), <<cls>>) = canvasClass

\* removeClass has removed 'selected' from "selected selected part"
C14_Witness ==
    /\ lastEvent = UtilityCall("removeClass", "selected", <<"selected", " ", "selected", " ", "part">>)
    /\ canvasClass = <<"part">>

----------------------------------------------------------------------------
(* C15 *)

\* the document starts as the claim takes it: no parent of a list item has
\* the 'selected' class and no two list items share a parent
CleanList ==
    /\ \A i \in ItemIds : ~HasClass(markup.parents[markup.items[i].parent], "selected")
    /\ \A i, j \in ItemIds : markup.items[i].parent = markup.items[j].parent => i = j

\* C15: with such a document, in every reachable state and for every name
\* of a label, the parent of each list item with that part number has the
\* 'selected' class exactly when the selected set holds an Area of that name.
C15_ListFollowsSelection ==
    CleanList => \A n \in LabelNames : ListInSync(n)

\* the list shows "1" as selected and "2", deselected again by a canvas
\* click, as not selected
C15_Witness ==
    /\ CleanList
    /\ LabelNames = {"1", "2"}
    /\ lastEvent.type = "click"
    /\ toggleLog = <<"2">>
    /\ passes = 1
    /\ NamesIn(selectedAreas) = {"1"}
    /\ HasClass(parentClass[1], "selected")
    /\ ~HasClass(parentClass[2], "selected")

----------------------------------------------------------------------------
(* C16 *)

\* C16: after the load every record of the selected set and a hovered area
\* equal (name, center, radius) an Area of the current Area array, though
\* they were made in earlier render passes; so every circle on the canvas is
\* centered on a label drawn in the same pass.
C16_KeptAreasAreCurrent ==
    loaded =>
        /\ \A s \in Range(selectedAreas) \cup Range(hoveredArea) :
              \E a \in Range(areas) :
                  a.name = s.name /\ a.x = s.x /\ a.y = s.y /\ a.radius = s.radius
        /\ \A c \in Range(drawn.circles) :
              \E l \in Range(drawn.texts) : l.x = c.x /\ l.y = c.y

\* an area hovered and an area selected before the last redraw, which
\* stroked a circle on a label not centered on the diagonal
C16_Witness ==
    /\ loaded
    /\ hoveredArea # <<>>
    /\ Len(selectedAreas) = 2
    /\ passes = 1
    /\ lastEvent.type = "item"
    /\ \E c \in Range(drawn.circles) : c.x # c.y

----------------------------------------------------------------------------
(* C17 *)

\* C17: a mousemove changes neither the selected set nor the Area array nor
\* a list class and draws nothing; a canvas click or list-item click changes
\* neither HoveredArea nor the canvas' class; no event changes the labels or
\* the config.
C17_HoverAndHighlightApart ==
    [][/\ lastEvent'.type = "mousemove" =>
             /\ UNCHANGED <<selectedAreas, areas, parentClass, drawn>>
             /\ passes' = 0
       /\ lastEvent'.type \in {"click", "item"} => UNCHANGED <<hoveredArea, canvasClass>>
       /\ UNCHANGED <<labels, config>>]_vars

\* a mousemove has ended the hover over a scheme with a selected area, after
\* clicks that left the hover alone
C17_Witness ==
    /\ lastEvent.type = "mousemove"
    /\ lastEvent.hits # {}
    /\ hoveredArea = <<>>
    /\ selectedAreas # <<>>
    /\ Len(drawn.circles) = Len(selectedAreas)

----------------------------------------------------------------------------
(* C12 *)

\* C12: of two Schemes on distinct canvases and lists, every event of one
\* (load, canvas click, mousemove, list-item click) leaves the other one's
\* Area array, selected set, hovered area, config and element classes as
\* they were, however the events of the two interleave.
C12_SchemesIndependent ==
    [][/\ lastEvent'.type \in {"load", "click", "mousemove", "item"} => other' = other
       /\ lastEvent'.type \in {"other.load", "other.click", "other.mousemove", "other.item"} =>
             UNCHANGED <<areas, selectedAreas, hoveredArea, config, labels,
                         canvasClass, parentClass, drawn, loaded>>]_vars

\* after events of both, the first Scheme has "1" selected and an area
\* hovered, the second one has just had "2" selected by a click and hovers
\* nothing
C12_Witness ==
    /\ lastEvent.type = "other.click"
    /\ NamesIn(selectedAreas) = {"1"}
    /\ hoveredArea # <<>>
    /\ NamesIn(other.selectedAreas) = {"2"}
    /\ other.hoveredArea = <<>>
    /\ HasClass(parentClass[1], "selected")
    /\ ~HasClass(other.parentClass[1], "selected")

====
